---- MODULE Spec2Model ----
(***************************************************************************)
(* Tuple-sliced learning switch controller (share/tupleslicer.py).         *)
(*                                                                         *)
(* One datapath is modelled: its SwitchStatus, the slices that hang off    *)
(* it, and the flow and group tables of the switch as the controller's     *)
(* commands leave them.  Every handler of TupleSlicer / SliceController    *)
(* is one action; the methods of Slice and SwitchStatus are operators      *)
(* that take the state as a record and return the state they leave.        *)
(***************************************************************************)
EXTENDS Integers, Sequences, FiniteSets, TLC

VARIABLES
    known,                   \* dpid in TupleSlicer.switches
    datapath,                \* SwitchStatus.datapath is not None
    known_ports,             \* SwitchStatus.known_ports
    free_groups,             \* SwitchStatus.free_groups
    group_to_tuple,          \* SwitchStatus.group_to_tuple
    tuple_to_group,          \* SwitchStatus.tuple_to_group
    target_index,            \* SwitchStatus.target_index : tuple -> slice
    invalid_slices,          \* SwitchStatus.invalid_slices
    invalid_first_tag_rules, \* SwitchStatus.invalid_first_tag_rules
    target,                  \* Slice.target, per slice object
    established,             \* Slice.established, per slice object
    sanitized,               \* Slice.sanitized, per slice object
    flows,                   \* flow entries of tables 0, 1, 2 on the switch
    groups,                  \* group table of the switch: id -> buckets
    used,                    \* events of each bounded kind so far
    cf                       \* operands and result of a tuples_conflict call

vars == <<known, datapath, known_ports, free_groups, group_to_tuple,
          tuple_to_group, target_index, invalid_slices,
          invalid_first_tag_rules, target, established, sanitized,
          flows, groups, used, cf>>

(***************************************************************************)
(* Bounds of the model.                                                    *)
(***************************************************************************)
NumMacs == 1          \* MAC addresses seen by the learning engine
MaxTuples == 4        \* largest candidate set handed to create_slice
MaxSlices == 6        \* Slice objects alive (or awaiting revalidation) at once
MaxElem == 2          \* largest element of an operand of tuples_conflict
MaxAway == 1          \* requests served between two attachments of the datapath
MaxEvents == 1        \* times the datapath leaves, or gains or loses a port
MaxPackets == 1       \* packets handed to the controller
MaxRequests == 2      \* requests served while the switch learns

Ports == {1, 2}
Macs == 1..NumMacs
SliceIds == 1..MaxSlices

\* The tuples requests refer to: both ports, all three encapsulation
\* levels, a conflict across levels, and three tuples that can share a slice.
Tuples == { <<1, 1>>, <<1, 1, 2>>, <<1, 2, 1>>, <<2>> }

\* The tuples of the requests while the switch learns: four that can share a
\* slice, two of them behind the same first tag.
LearnTuples == { <<1, 1>>, <<1, 2, 1>>, <<1, 2, 2>>, <<2>> }

\* The tuples of a slice in which a source moves between two tuples of
\* three elements on one port that bear the same two tags in opposite order.
RelearnTuples == { <<1, 1, 2>>, <<1, 2, 1>>, <<2>> }

\* Malformed tuples a request can carry (JSON lists of any length and sign).
EmptyTuple == << >>
BadTuples == { EmptyTuple, <<1, 1, 1, 1>>, <<2, -1>> }

(***************************************************************************)
(* Dictionaries and folds.                                                 *)
(***************************************************************************)
EmptyMap == [x \in {} |-> 0]
MapPut(f, k, v) == [x \in (DOMAIN f) \cup {k} |-> IF x = k THEN v ELSE f[x]]
MapDel(f, k) == [x \in (DOMAIN f) \ {k} |-> f[x]]
Range(f) == { f[x] : x \in DOMAIN f }

RECURSIVE FoldSet(_, _, _)
FoldSet(Op(_, _), acc, S) ==
    IF S = {} THEN acc
    ELSE LET x == CHOOSE y \in S : TRUE
         IN  FoldSet(Op, Op(acc, x), S \ {x})

RECURSIVE FoldSeq(_, _, _)
FoldSeq(Op(_, _), acc, q) ==
    IF q = << >> THEN acc
    ELSE FoldSeq(Op, Op(acc, Head(q)), Tail(q))

\* Every order in which a loop can visit a set.
Reverse(q) == [ i \in 1..Len(q) |-> q[Len(q) + 1 - i] ]

RECURSIVE Orders(_)
Orders(S) ==
    IF S = {} THEN { << >> }
    ELSE UNION { { <<x>> \o q : q \in Orders(S \ {x}) } : x \in S }

\* One fixed order of a set.
RECURSIVE SetToSeq(_)
SetToSeq(S) ==
    IF S = {} THEN << >>
    ELSE LET x == CHOOSE y \in S : TRUE
         IN  <<x>> \o SetToSeq(S \ {x})

Min(S) == CHOOSE x \in S : \A y \in S : x <= y

(***************************************************************************)
(* Tuple algebra.                                                          *)
(***************************************************************************)
tuples_conflict_len1(tup1, tup2) ==
    IF tup1[1] # tup2[1] THEN FALSE
    ELSE IF Len(tup1) = 1 THEN TRUE
    ELSE IF Len(tup2) = 1 THEN FALSE
    ELSE IF tup1[2] # tup2[2] THEN FALSE
    ELSE IF Len(tup1) = 2 THEN TRUE
    ELSE IF Len(tup2) = 2 THEN TRUE
    ELSE tup1[3] = tup2[3]

tuples_conflict(tup1, tup2) ==
    IF tup1[1] # tup2[1] THEN FALSE
    ELSE IF Len(tup1) = 1 THEN TRUE
    ELSE IF Len(tup2) = 1 THEN TRUE
    ELSE IF tup1[2] # tup2[2] THEN FALSE
    ELSE IF Len(tup1) = 2 THEN TRUE
    ELSE IF Len(tup2) = 2 THEN TRUE
    ELSE tup1[3] = tup2[3]

(***************************************************************************)
(* The state as one record, so that methods compose.                       *)
(***************************************************************************)
State ==
    [ datapath |-> datapath, known_ports |-> known_ports,
      free_groups |-> free_groups, group_to_tuple |-> group_to_tuple,
      tuple_to_group |-> tuple_to_group, target_index |-> target_index,
      invalid_slices |-> invalid_slices,
      invalid_first_tag_rules |-> invalid_first_tag_rules,
      target |-> target, established |-> established,
      sanitized |-> sanitized, flows |-> flows, groups |-> groups,
      out |-> << >> ]

\* SwitchStatus.__init__ and the Slice objects not yet constructed.
BlankStatus ==
    [ datapath |-> FALSE, known_ports |-> {},
      free_groups |-> {0}, group_to_tuple |-> EmptyMap,
      tuple_to_group |-> EmptyMap, target_index |-> EmptyMap,
      invalid_slices |-> {}, invalid_first_tag_rules |-> {},
      target |-> [s \in SliceIds |-> {}],
      established |-> [s \in SliceIds |-> {}],
      sanitized |-> [s \in SliceIds |-> {}],
      flows |-> {}, groups |-> EmptyMap, out |-> << >> ]

(***************************************************************************)
(* Slice: adopt and abandon.                                               *)
(***************************************************************************)
abandon_keep_index(st, s, tup) ==
    IF tup \notin st.target[s] THEN st
    ELSE [st EXCEPT !.target[s] = @ \ {tup},
                    !.invalid_slices = @ \cup {s}]

abandon(st, s, tup) ==
    IF tup \notin st.target[s] THEN st
    ELSE [st EXCEPT !.target[s] = @ \ {tup},
                    !.target_index = MapDel(@, tup),
                    !.invalid_slices = @ \cup {s}]

adopt_no_abandon(st, s, tup) ==
    IF tup \in st.target[s] THEN st
    ELSE [st EXCEPT !.target[s] = @ \cup {tup},
                    !.target_index = MapPut(@, tup, s),
                    !.invalid_slices = @ \cup {s}]

adopt_no_index(st, s, tup) ==
    IF tup \in st.target[s] THEN st
    ELSE LET abd == { <<st.target_index[tup2], tup2>> :
                        tup2 \in { t \in DOMAIN st.target_index :
                                     /\ tuples_conflict(tup, t)
                                     /\ ~(tup = t /\ st.target_index[t] = s) } }
             st1 == FoldSet(LAMBDA a, en : abandon(a, en[1], en[2]), st, abd)
         IN  [st1 EXCEPT !.target[s] = @ \cup {tup},
                         !.invalid_slices = @ \cup {s}]

adopt_no_target(st, s, tup) ==
    IF tup \in st.target[s] THEN st
    ELSE LET abd == { <<st.target_index[tup2], tup2>> :
                        tup2 \in { t \in DOMAIN st.target_index :
                                     /\ tuples_conflict(tup, t)
                                     /\ ~(tup = t /\ st.target_index[t] = s) } }
             st1 == FoldSet(LAMBDA a, en : abandon(a, en[1], en[2]), st, abd)
         IN  [st1 EXCEPT !.invalid_slices = @ \cup {s}]

adopt(st, s, tup) ==
    IF tup \in st.target[s] THEN st
    ELSE LET abd == { <<st.target_index[tup2], tup2>> :
                        tup2 \in { t \in DOMAIN st.target_index :
                                     /\ tuples_conflict(tup, t)
                                     /\ ~(tup = t /\ st.target_index[t] = s) } }
             st1 == FoldSet(LAMBDA a, en : abandon(a, en[1], en[2]), st, abd)
         IN  [st1 EXCEPT !.target[s] = @ \cup {tup},
                         !.target_index = MapPut(@, tup, s),
                         !.invalid_slices = @ \cup {s}]

(***************************************************************************)
(* SwitchStatus: configuration.                                            *)
(***************************************************************************)
\* get_config: one list of tuples per slice that target_index refers to.
\* The function keeps one entry per slice object, as the list does.
get_config(st) == [s \in Range(st.target_index) |-> st.target[s]]

ConfigUnion(st) == UNION { st.target[s] : s \in Range(st.target_index) }

\* Slice(self): a new object.  An identifier is free when the object that
\* bore it has no tuple and no established tuple left; such an object can
\* no longer cause or suffer any effect.
FreeSliceIds(st) ==
    { s \in SliceIds : /\ st.target[s] = {}
                       /\ st.established[s] = {}
                       /\ s \notin Range(st.target_index) }

NewSlice(st) == Min(FreeSliceIds(st))

\* One visiting order of a set for each element that can come first.
LoopOrders(S) == { <<x>> \o SetToSeq(S \ {x}) : x \in S }

\* The checks at the head of create_slice, for one visiting order of tups.
\* tuples_conflict reads tup2[0] first, which an empty otup does not have.
WellFormed(tup) ==
    /\ Len(tup) >= 1
    /\ Len(tup) <= 3
    /\ \A i \in 1..Len(tup) : tup[i] >= 0

RECURSIVE CheckOthers(_, _)
CheckOthers(tup, others) ==
    IF others = << >> THEN "ok"
    ELSE IF Head(others) = tup THEN CheckOthers(tup, Tail(others))
    ELSE IF Head(others) = EmptyTuple THEN "raise"
    ELSE IF tuples_conflict(tup, Head(others)) THEN "none"
    ELSE CheckOthers(tup, Tail(others))

RECURSIVE CheckTuples(_, _)
CheckTuples(todo, order) ==
    IF todo = << >> THEN "ok"
    ELSE IF ~WellFormed(Head(todo)) THEN "none"
    ELSE LET r == CheckOthers(Head(todo), order)
         IN  IF r # "ok" THEN r ELSE CheckTuples(Tail(todo), order)

\* Every result of the checks.  Only a raise depends on the visiting order,
\* and only an empty tuple raises.
check_tuples(tups) ==
    IF tups = {} THEN { "none" }
    ELSE IF EmptyTuple \in tups
    THEN { CheckTuples(o, o) : o \in Orders(tups) }
    ELSE { CheckTuples(SetToSeq(tups), SetToSeq(tups)) }

\* The slice with the maximum overlap, for one visiting order of tups.
best_slize(st, tups, order) ==
    FoldSeq(LAMBDA best, tup :
                IF tup \notin DOMAIN st.target_index THEN best
                ELSE LET slize == st.target_index[tup]
                         overlap == Cardinality(st.target[slize] \cap tups)
                     IN  IF overlap > best[2] THEN <<slize, overlap>>
                         ELSE best,
            <<0, 0>>, order)[1]

create_slice_in_keep_rest(st, tups, host) ==
    IF host # 0
    THEN FoldSet(LAMBDA a, tup : adopt(a, host, tup), st,
                 tups \ st.target[host])
    ELSE LET slize == NewSlice(st)
             st1 == [st EXCEPT !.sanitized[slize] = {}]
         IN  FoldSet(LAMBDA a, tup : adopt(a, slize, tup), st1, tups)

\* The body of create_slice after the checks, for a chosen host (0: none).
create_slice_in(st, tups, host) ==
    IF host # 0
    THEN LET st1 == FoldSet(LAMBDA a, tup : adopt(a, host, tup), st,
                            tups \ st.target[host])
             abandoned == st1.target[host] \ tups
             other_slize == NewSlice(st1)
             st2 == [st1 EXCEPT !.sanitized[other_slize] = {}]
         IN  FoldSet(LAMBDA a, tup : adopt(a, other_slize, tup), st2,
                     abandoned)
    ELSE LET slize == NewSlice(st)
             st1 == [st EXCEPT !.sanitized[slize] = {}]
         IN  FoldSet(LAMBDA a, tup : adopt(a, slize, tup), st1, tups)

\* create_slice: every result the call can have.  res is "none" (rejected),
\* "raise" (IndexError out of tuples_conflict) or "ok", with the state the
\* call leaves and the slice it returns.
create_slice(st, tups) ==
    LET checks == check_tuples(tups)
    IN  { [res |-> r, st |-> st, slize |-> 0] : r \in checks \ {"ok"} }
        \cup
        IF "ok" \in checks
        THEN { [res |-> "ok",
                st |-> create_slice_in(st, tups, host),
                slize |-> IF host # 0 THEN host ELSE NewSlice(st)] :
               host \in { best_slize(st, tups, o) : o \in LoopOrders(tups) } }
        ELSE {}

\* discard_tuple
discard_tuple(st, tup) ==
    IF tup \in DOMAIN st.target_index
    THEN abandon(st, st.target_index[tup], tup)
    ELSE st

(***************************************************************************)
(* SwitchStatus: group allocator.                                          *)
(***************************************************************************)
get_group_for_tuple(st, tup) ==
    IF tup \in DOMAIN st.tuple_to_group THEN st.tuple_to_group[tup] ELSE -1

claim_group_take_largest(st, tup) ==
    IF tup \in DOMAIN st.tuple_to_group
    THEN <<st, st.tuple_to_group[tup], FALSE>>
    ELSE LET group == CHOOSE x \in st.free_groups :
                          \A y \in st.free_groups : y <= x
             rest == st.free_groups \ {group}
         IN  << [st EXCEPT
                   !.free_groups = IF rest = {} THEN {group + 1} ELSE rest,
                   !.tuple_to_group = MapPut(@, tup, group),
                   !.group_to_tuple = MapPut(@, group, tup)],
                group, TRUE >>

claim_group_same_successor(st, tup) ==
    IF tup \in DOMAIN st.tuple_to_group
    THEN <<st, st.tuple_to_group[tup], FALSE>>
    ELSE LET group == Min(st.free_groups)
             rest == st.free_groups \ {group}
         IN  << [st EXCEPT
                   !.free_groups = IF rest = {} THEN {group} ELSE rest,
                   !.tuple_to_group = MapPut(@, tup, group),
                   !.group_to_tuple = MapPut(@, group, tup)],
                group, TRUE >>

\* claim_group_for_tuple: <<state, group, added>>
claim_group_for_tuple(st, tup) ==
    IF tup \in DOMAIN st.tuple_to_group
    THEN <<st, st.tuple_to_group[tup], FALSE>>
    ELSE LET group == Min(st.free_groups)
             rest == st.free_groups \ {group}
         IN  << [st EXCEPT
                   !.free_groups = IF rest = {} THEN {group + 1} ELSE rest,
                   !.tuple_to_group = MapPut(@, tup, group),
                   !.group_to_tuple = MapPut(@, group, tup)],
                group, TRUE >>

release_tuple_keep_taken(st, tup) ==
    IF tup \notin DOMAIN st.tuple_to_group THEN <<st, -1>>
    ELSE LET group == st.tuple_to_group[tup]
         IN  << [st EXCEPT !.tuple_to_group = MapDel(@, tup),
                           !.group_to_tuple = MapDel(@, group)],
                group >>

release_tuple_keep_reverse(st, tup) ==
    IF tup \notin DOMAIN st.tuple_to_group THEN <<st, -1>>
    ELSE LET group == st.tuple_to_group[tup]
         IN  << [st EXCEPT !.tuple_to_group = MapDel(@, tup),
                           !.free_groups = @ \cup {group}],
                group >>

\* release_tuple: <<state, group>>, group -1 for None
release_tuple(st, tup) ==
    IF tup \notin DOMAIN st.tuple_to_group THEN <<st, -1>>
    ELSE LET group == st.tuple_to_group[tup]
         IN  << [st EXCEPT !.tuple_to_group = MapDel(@, tup),
                           !.group_to_tuple = MapDel(@, group),
                           !.free_groups = @ \cup {group}],
                group >>

(***************************************************************************)
(* OpenFlow values.  Reserved ports, groups and the all-ones cookie are    *)
(* written as the signed reading of their bit patterns (0xfffffff8 is -8). *)
(***************************************************************************)
OFPP_IN_PORT == -8
OFPP_TABLE == -7
OFPP_CONTROLLER == -3
OFPP_ANY == -1
OFPG_ALL == -4
AllOnes == -1
OFPVID_PRESENT == 4096
ETH_TYPE_8021Q == 33024
ETH_TYPE_8021AD == 34984
ETH_TYPE_LLDP == 35020
MaxPortNo == 2147483647
DefaultTimeout == 600
Absent == 0 - 1          \* a match field, group or cookie that is not given

\* 0x1000 | v
VlanPresent(v) ==
    IF (v \div OFPVID_PRESENT) % 2 = 1 THEN v ELSE v + OFPVID_PRESENT

OFPMatch(in_port, metadata, vlan_vid, eth_src, eth_dst, eth_type) ==
    [ in_port |-> in_port, metadata |-> metadata, vlan_vid |-> vlan_vid,
      eth_src |-> eth_src, eth_dst |-> eth_dst, eth_type |-> eth_type ]

MatchAll == OFPMatch(Absent, Absent, Absent, Absent, Absent, Absent)

Act(op, arg) == [ op |-> op, arg |-> arg ]

\* Messages to the switch, all of one shape.
Msg(ty, cmd, tbl, prio, match, ck, mask, port, acts, goto, idle, gid, bkts) ==
    [ type |-> ty, command |-> cmd, table_id |-> tbl,
      priority |-> prio, match |-> match, cookie |-> ck,
      cookie_mask |-> mask, out_port |-> port,
      actions |-> acts, goto |-> goto, idle_timeout |-> idle,
      group_id |-> gid, buckets |-> bkts ]

FlowAdd(table_id, priority, match, cookie, actions, goto, idle_timeout) ==
    Msg("flow", "ADD", table_id, priority, match, cookie, 0, 0,
        actions, goto, idle_timeout, Absent, {})

FlowDelete(table_id, match, cookie, cookie_mask, out_port) ==
    Msg("flow", "DELETE", table_id, 0, match, cookie, cookie_mask, out_port,
        << >>, Absent, 0, Absent, {})

GroupMod(command, group_id, buckets) ==
    Msg("group", command, 0, 0, MatchAll, 0, 0, 0,
        << >>, Absent, 0, group_id, buckets)

(***************************************************************************)
(* The switch: what a message does to its flow and group tables.           *)
(***************************************************************************)
Entry(m) ==
    [ table_id |-> m.table_id, priority |-> m.priority, match |-> m.match,
      cookie |-> m.cookie, actions |-> m.actions, goto |-> m.goto,
      idle_timeout |-> m.idle_timeout ]

OutputsTo(actions, port) ==
    \E i \in 1..Len(actions) :
        actions[i].op = "output" /\ actions[i].arg = port

UsesGroup(actions, g) ==
    \E i \in 1..Len(actions) :
        actions[i].op = "group" /\ (g = OFPG_ALL \/ actions[i].arg = g)

GroupsUsed(actions) ==
    { actions[i].arg : i \in { j \in 1..Len(actions) : actions[j].op = "group" } }

\* Non-strict matching of a DELETE: every field the message gives is given
\* by the entry with the same value.
Covers(m, e) ==
    /\ m.in_port \in {Absent, e.in_port}
    /\ m.metadata \in {Absent, e.metadata}
    /\ m.vlan_vid \in {Absent, e.vlan_vid}
    /\ m.eth_src \in {Absent, e.eth_src}
    /\ m.eth_dst \in {Absent, e.eth_dst}
    /\ m.eth_type \in {Absent, e.eth_type}

Deletes(m, e) ==
    /\ e.table_id = m.table_id
    /\ Covers(m.match, e.match)
    /\ (m.cookie_mask = 0 \/ e.cookie = m.cookie)
    /\ (m.out_port = OFPP_ANY \/ OutputsTo(e.actions, m.out_port))

SwitchFlows(fl, gr, m) ==
    IF m.type = "flow" /\ m.command = "ADD"
    THEN IF GroupsUsed(m.actions) \subseteq DOMAIN gr
         THEN { e \in fl : ~( /\ e.table_id = m.table_id
                              /\ e.priority = m.priority
                              /\ e.match = m.match ) } \cup { Entry(m) }
         ELSE fl
    ELSE IF m.type = "flow" /\ m.command = "DELETE"
    THEN { e \in fl : ~Deletes(m, e) }
    ELSE IF m.type = "group" /\ m.command = "DELETE"
    THEN { e \in fl : ~UsesGroup(e.actions, m.group_id) }
    ELSE fl

SwitchGroups(gr, m) ==
    IF m.type # "group" THEN gr
    ELSE IF m.command = "ADD"
    THEN IF m.group_id \in DOMAIN gr THEN gr
         ELSE MapPut(gr, m.group_id, m.buckets)
    ELSE IF m.command = "MODIFY"
    THEN IF m.group_id \in DOMAIN gr THEN MapPut(gr, m.group_id, m.buckets)
         ELSE gr
    ELSE IF m.group_id = OFPG_ALL THEN EmptyMap
    ELSE MapDel(gr, m.group_id)

\* dp.send_msg(msg): the switch takes the messages in the order sent.
send_msg(st, m) ==
    [st EXCEPT !.out = Append(@, m),
               !.flows = SwitchFlows(st.flows, st.groups, m),
               !.groups = SwitchGroups(st.groups, m)]

(***************************************************************************)
(* Flow builder.                                                           *)
(***************************************************************************)
\* tuple_match: <<match, table, priority>>; mac is Absent for None
tuple_match(tup, mac) ==
    IF Len(tup) = 1
    THEN <<OFPMatch(tup[1], Absent, Absent, mac, Absent, Absent), 0, 4>>
    ELSE IF Len(tup) = 2
    THEN <<OFPMatch(tup[1], tup[2], Absent, mac, Absent, Absent), 1, 4>>
    ELSE <<OFPMatch(tup[1], tup[2], VlanPresent(tup[3]), mac, Absent, Absent),
           1, 4>>

tuple_action_to_port(tup, in_port) ==
    IF Len(tup) = 1
    THEN << Act("output", tup[1]) >>
    ELSE IF Len(tup) = 2
    THEN << Act("push_vlan", ETH_TYPE_8021Q),
            Act("set_vlan_vid", VlanPresent(tup[2])),
            Act("output", tup[1]) >>
    ELSE << Act("push_vlan", ETH_TYPE_8021Q),
            Act("set_vlan_vid", VlanPresent(tup[3])),
            Act("push_vlan", ETH_TYPE_8021AD),
            Act("set_vlan_vid", VlanPresent(tup[2])),
            Act("output", tup[1]) >>

tuple_action(tup, in_port) ==
    LET out_port == IF tup[1] = in_port THEN OFPP_IN_PORT ELSE tup[1]
    IN  IF Len(tup) = 1
        THEN << Act("output", out_port) >>
        ELSE IF Len(tup) = 2
        THEN << Act("push_vlan", ETH_TYPE_8021Q),
                Act("set_vlan_vid", VlanPresent(tup[2])),
                Act("output", out_port) >>
        ELSE << Act("push_vlan", ETH_TYPE_8021Q),
                Act("set_vlan_vid", VlanPresent(tup[3])),
                Act("push_vlan", ETH_TYPE_8021AD),
                Act("set_vlan_vid", VlanPresent(tup[2])),
                Act("output", out_port) >>

(***************************************************************************)
(* SwitchStatus: first-tag rules.                                          *)
(***************************************************************************)
invalidate_first_tag_rule(st, tup) ==
    IF Len(tup) < 2 THEN st
    ELSE [st EXCEPT !.invalid_first_tag_rules = @ \cup { <<tup[1], tup[2]>> }]

ensure_first_tag_rule(st, tup) ==
    IF Len(tup) < 2 THEN st
    ELSE send_msg(st,
           FlowAdd(0, 4,
                   OFPMatch(tup[1], Absent, VlanPresent(tup[2]),
                            Absent, Absent, Absent),
                   0,
                   << Act("pop_vlan", 0), Act("set_metadata", tup[2]) >>,
                   1, 0))

\* tup[0:2]
Prefix2(tup) == IF Len(tup) < 2 THEN tup ELSE <<tup[1], tup[2]>>

revalidate_first_tag_rules_keep(st) ==
    LET needed == { Prefix2(tup) :
                      tup \in UNION { st.target[s] :
                                        s \in Range(st.target_index) } }
        st1 == [st EXCEPT !.invalid_first_tag_rules = @ \ needed]
    IN  FoldSet(LAMBDA a, tup :
                   send_msg(a, FlowDelete(0,
                       OFPMatch(tup[1], Absent, VlanPresent(tup[2]),
                                Absent, Absent, Absent),
                       0, 0, OFPP_ANY)),
                st1, st1.invalid_first_tag_rules)

revalidate_first_tag_rules_all(st) ==
    LET st2 == FoldSet(LAMBDA a, tup :
                          send_msg(a, FlowDelete(0,
                              OFPMatch(tup[1], Absent, VlanPresent(tup[2]),
                                       Absent, Absent, Absent),
                              0, 0, OFPP_ANY)),
                       st, st.invalid_first_tag_rules)
    IN  [st2 EXCEPT !.invalid_first_tag_rules = {}]

revalidate_first_tag_rules(st) ==
    LET needed == { Prefix2(tup) :
                      tup \in UNION { st.target[s] :
                                        s \in Range(st.target_index) } }
        st1 == [st EXCEPT !.invalid_first_tag_rules = @ \ needed]
        st2 == FoldSet(LAMBDA a, tup :
                          send_msg(a, FlowDelete(0,
                              OFPMatch(tup[1], Absent, VlanPresent(tup[2]),
                                       Absent, Absent, Absent),
                              0, 0, OFPP_ANY)),
                       st1, st1.invalid_first_tag_rules)
    IN  [st2 EXCEPT !.invalid_first_tag_rules = {}]

(***************************************************************************)
(* Revalidation.                                                           *)
(***************************************************************************)
\* The T2 clean-up that follows a released group in delete_dynamic_rules.
delete_group_rules(st, group) ==
    LET st1 == send_msg(st, GroupMod("DELETE", group, {}))
        st2 == send_msg(st1, FlowDelete(2, MatchAll, group, AllOnes, OFPP_ANY))
    IN  send_msg(st2,
                 FlowDelete(2, OFPMatch(Absent, group, Absent, Absent, Absent,
                                        Absent),
                            0, 0, OFPP_ANY))

delete_dynamic_rules(st, tup) ==
    LET st1 == invalidate_first_tag_rule(st, tup)
        st2 == send_msg(st1, FlowDelete(tuple_match(tup, Absent)[2],
                                        tuple_match(tup, Absent)[1],
                                        0, 0, OFPP_ANY))
        rel == release_tuple(st2, tup)
    IN  IF rel[2] = Absent THEN rel[1]
        ELSE delete_group_rules(rel[1], rel[2])

sanitize(st, s) ==
    [st EXCEPT !.sanitized[s] =
                  { tup \in st.target[s] : tup[1] \in st.known_ports }]

match_keep_established(st, s) == st

match(st, s) == [st EXCEPT !.established[s] = st.sanitized[s]]

\* Slice.invalidate
slice_invalidate(st, s) ==
    [st EXCEPT !.established[s] = {}, !.invalid_slices = @ \cup {s}]

\* SwitchStatus.invalidate
invalidate(st) ==
    FoldSet(LAMBDA a, s : slice_invalidate(a, s), st, Range(st.target_index))

\* The first loop of delete_static_rules, for one tuple.
delete_source_rules(st, tup) ==
    LET st1 == invalidate_first_tag_rule(st, tup)
        m == tuple_match(tup, Absent)
        group == get_group_for_tuple(st1, tup)
    IN  send_msg(st1,
                 IF group = Absent
                 THEN FlowDelete(m[2], m[1], 0, 0, OFPP_ANY)
                 ELSE FlowDelete(m[2], m[1], group, AllOnes, OFPP_CONTROLLER))

release_static_group_silent(st, tup) == release_tuple(st, tup)[1]

\* The second loop of delete_static_rules, for one tuple.
release_static_group(st, tup) ==
    LET rel == release_tuple(st, tup)
    IN  IF rel[2] = Absent THEN rel[1]
        ELSE LET st1 == send_msg(rel[1], GroupMod("DELETE", rel[2], {}))
             IN  send_msg(st1,
                          FlowDelete(2, OFPMatch(Absent, rel[2], Absent,
                                                 Absent, Absent, Absent),
                                     AllOnes, 0, OFPP_ANY))

delete_static_rules(st, s) ==
    IF st.sanitized[s] = st.established[s] THEN st
    ELSE LET oldtups ==
                 IF Cardinality(st.established[s]) = 2 THEN st.established[s]
                 ELSE IF Cardinality(st.sanitized[s]) <= 2
                 THEN st.established[s]
                 ELSE st.established[s] \ st.sanitized[s]
             st1 == FoldSet(delete_source_rules, st, oldtups)
         IN  IF /\ Cardinality(st.sanitized[s]) <= 2
                /\ Cardinality(st.established[s]) > 2
             THEN FoldSet(release_static_group, st1, oldtups)
             ELSE st1

\* The E-Line rule of add_static_rules from tup to other.
add_eline(st, tup, other) ==
    LET st1 == ensure_first_tag_rule(st, tup)
        m == tuple_match(tup, Absent)
    IN  send_msg(st1, FlowAdd(m[2], m[3], m[1], 0,
                              tuple_action(other, tup[1]), Absent, 0))

add_group_with_self(acc, s, stup) ==
    LET claim == claim_group_for_tuple(acc[1], stup)
        st1 == claim[1]
        group == claim[2]
        buckets == { tuple_action(dtup, stup[1]) :
                       dtup \in st1.sanitized[s] }
        st2 == send_msg(st1, GroupMod(IF claim[3] THEN "ADD" ELSE "MODIFY",
                                      group, buckets))
    IN  IF claim[3]
        THEN << send_msg(st2,
                   FlowAdd(2, 1,
                           OFPMatch(Absent, group, Absent, Absent, Absent,
                                    Absent),
                           AllOnes, << Act("group", group) >>, Absent, 0)),
                group >>
        ELSE << st2, group >>

\* One round of the group loop of add_static_rules: acc is <<state, group>>.
add_group(acc, s, stup) ==
    LET claim == claim_group_for_tuple(acc[1], stup)
        st1 == claim[1]
        group == claim[2]
        buckets == { tuple_action(dtup, stup[1]) :
                       dtup \in st1.sanitized[s] \ {stup} }
        st2 == send_msg(st1, GroupMod(IF claim[3] THEN "ADD" ELSE "MODIFY",
                                      group, buckets))
    IN  IF claim[3]
        THEN << send_msg(st2,
                   FlowAdd(2, 1,
                           OFPMatch(Absent, group, Absent, Absent, Absent,
                                    Absent),
                           AllOnes, << Act("group", group) >>, Absent, 0)),
                group >>
        ELSE << st2, group >>

\* One round of the newports loop: group is what the group loop left in
\* the variable of that name.
add_classifier(st, stup, group) ==
    LET m == tuple_match(stup, Absent)
        st1 == send_msg(st, FlowAdd(m[2], m[3], m[1], group,
                                    << Act("output", OFPP_CONTROLLER) >>,
                                    Absent, 0))
    IN  ensure_first_tag_rule(st1, stup)

add_static_rules_any_size(st, s, order) ==
    IF st.sanitized[s] = st.established[s] THEN st
    ELSE IF Cardinality(st.sanitized[s]) = 2
    THEN add_eline(add_eline(st, order[1], order[2]), order[2], order[1])
    ELSE LET newports ==
                 IF Cardinality(st.established[s]) <= 2 THEN st.sanitized[s]
                 ELSE st.sanitized[s] \ st.established[s]
             grouped == FoldSeq(LAMBDA a, stup : add_group(a, s, stup),
                                <<st, Absent>>, order)
         IN  FoldSet(LAMBDA a, stup : add_classifier(a, stup, grouped[2]),
                     grouped[1], newports)

\* add_static_rules; order is the order in which the slice's sanitized set
\* is visited.
add_static_rules(st, s, order) ==
    IF st.sanitized[s] = st.established[s] THEN st
    ELSE IF Cardinality(st.sanitized[s]) < 2 THEN st
    ELSE IF Cardinality(st.sanitized[s]) = 2
    THEN add_eline(add_eline(st, order[1], order[2]), order[2], order[1])
    ELSE LET newports ==
                 IF Cardinality(st.established[s]) <= 2 THEN st.sanitized[s]
                 ELSE st.sanitized[s] \ st.established[s]
             grouped == FoldSeq(LAMBDA a, stup : add_group(a, s, stup),
                                <<st, Absent>>, order)
         IN  FoldSet(LAMBDA a, stup : add_classifier(a, stup, grouped[2]),
                     grouped[1], newports)

\* What sanitize will compute for slice s.
Sanitized(st, s) == { tup \in st.target[s] : tup[1] \in st.known_ports }

\* The orders in which add_static_rules visits the sanitized set of s: one
\* order and its reverse.  Only its group loop depends on more than the set
\* visited.
SliceOrders(st, s) ==
    IF /\ Cardinality(Sanitized(st, s)) >= 3
       /\ Sanitized(st, s) # st.established[s]
    THEN { SetToSeq(Sanitized(st, s)), Reverse(SetToSeq(Sanitized(st, s))) }
    ELSE { SetToSeq(Sanitized(st, s)) }

\* One visiting order for each slice of S.
RECURSIVE VisitOrders(_, _)
VisitOrders(st, S) ==
    IF S = {} THEN { EmptyMap }
    ELSE LET s == CHOOSE x \in S : TRUE
         IN  { MapPut(f, s, o) :
                 f \in VisitOrders(st, S \ {s}), o \in SliceOrders(st, s) }

revalidate_in_add_first(st, ord) ==
    LET inv == st.invalid_slices
        tuples_to_reset ==
            UNION { st.established[s] \ st.target[s] : s \in inv }
        st1 == FoldSet(sanitize, st, inv)
        st2 == FoldSet(LAMBDA a, s : add_static_rules(a, s, ord[s]), st1, inv)
        st3 == FoldSet(delete_dynamic_rules, st2, tuples_to_reset)
        st4 == FoldSet(delete_static_rules, st3, inv)
        st5 == FoldSet(match, st4, inv)
        st6 == [st5 EXCEPT !.invalid_slices = {}]
    IN  revalidate_first_tag_rules(st6)

\* revalidate, for given visiting orders.
revalidate_in(st, ord) ==
    LET inv == st.invalid_slices
        tuples_to_reset ==
            UNION { st.established[s] \ st.target[s] : s \in inv }
        st1 == FoldSet(delete_dynamic_rules, st, tuples_to_reset)
        st2 == FoldSet(sanitize, st1, inv)
        st3 == FoldSet(delete_static_rules, st2, inv)
        st4 == FoldSet(LAMBDA a, s : add_static_rules(a, s, ord[s]), st3, inv)
        st5 == FoldSet(match, st4, inv)
        st6 == [st5 EXCEPT !.invalid_slices = {}]
    IN  revalidate_first_tag_rules(st6)

revalidate_without_datapath(st) ==
    { revalidate_in(st, ord) : ord \in VisitOrders(st, st.invalid_slices) }

\* revalidate: every state the call can leave.
revalidate(st) ==
    IF ~st.datapath THEN { st }
    ELSE { revalidate_in(st, ord) : ord \in VisitOrders(st, st.invalid_slices) }

(***************************************************************************)
(* SwitchStatus: ports and datapath.                                       *)
(***************************************************************************)
set_datapath(st, dp) == [st EXCEPT !.datapath = dp, !.known_ports = {}]

port_added(st, port) ==
    IF port > MaxPortNo THEN st
    ELSE [st EXCEPT !.known_ports = @ \cup {port}]

port_removed_forget(st, port) ==
    LET st1 == [st EXCEPT !.known_ports = @ \ {port}]
    IN  FoldSet(LAMBDA a, tup : discard_tuple(a, tup), st1,
                { t \in DOMAIN st.target_index : t[1] = port })

port_removed(st, port) ==
    [st EXCEPT !.known_ports = @ \ {port},
               !.invalid_slices =
                   @ \cup { st.target_index[tup] :
                              tup \in { t \in DOMAIN st.target_index :
                                          t[1] = port } }]

(***************************************************************************)
(* TupleSlicer: learning.                                                  *)
(***************************************************************************)
\* _learn: every state the call can leave.  A group that is None is a field
\* that is not given.
learn_in_without_group(st, tup, mac, timeout) ==
    IF tup \notin DOMAIN st.target_index THEN st
    ELSE LET tups == SetToSeq(st.target[st.target_index[tup]])
             group == get_group_for_tuple(st, tup)
             st1 == FoldSeq(LAMBDA a, dtup :
                       LET dgroup == get_group_for_tuple(a, dtup)
                       IN  send_msg(a,
                              FlowAdd(2, 2,
                                      OFPMatch(Absent, dgroup, Absent, Absent,
                                               mac, Absent),
                                      group,
                                      IF group = dgroup THEN << >>
                                      ELSE tuple_action(tup, dtup[1]),
                                      Absent, 0)),
                       st, tups)
             st2 == FoldSeq(LAMBDA a, stup :
                       IF stup = tup THEN a
                       ELSE send_msg(a,
                              FlowDelete(tuple_match(stup, mac)[2],
                                         OFPMatch(Absent, Absent, Absent, mac,
                                                  Absent, Absent),
                                         get_group_for_tuple(a, stup),
                                         AllOnes, OFPP_ANY)),
                       st1, tups)
             m == tuple_match(tup, mac)
         IN  send_msg(st2,
                    FlowAdd(m[2], m[3] + 1, m[1], group,
                            << Act("set_metadata", group) >>
                              \o IF Len(tup) > 2 THEN << Act("pop_vlan", 0) >>
                                 ELSE << >>,
                            2, timeout))

learn_in(st, tup, mac, timeout) ==
    IF tup \notin DOMAIN st.target_index THEN st
    ELSE LET tups == SetToSeq(st.target[st.target_index[tup]])
             group == get_group_for_tuple(st, tup)
             st1 == FoldSeq(LAMBDA a, dtup :
                       LET dgroup == get_group_for_tuple(a, dtup)
                       IN  send_msg(a,
                              FlowAdd(2, 2,
                                      OFPMatch(Absent, dgroup, Absent, Absent,
                                               mac, Absent),
                                      group,
                                      IF group = dgroup THEN << >>
                                      ELSE tuple_action(tup, dtup[1]),
                                      Absent, 0)),
                       st, tups)
             st2 == FoldSeq(LAMBDA a, stup :
                       IF stup = tup THEN a
                       ELSE send_msg(a,
                              FlowDelete(tuple_match(stup, mac)[2],
                                         OFPMatch(Absent, Absent, Absent, mac,
                                                  Absent, Absent),
                                         get_group_for_tuple(a, stup),
                                         AllOnes, OFPP_ANY)),
                       st1, tups)
             m == tuple_match(tup, mac)
         IN  IF group = Absent THEN st
             ELSE send_msg(st2,
                    FlowAdd(m[2], m[3] + 1, m[1], group,
                            << Act("set_metadata", group) >>
                              \o IF Len(tup) > 2 THEN << Act("pop_vlan", 0) >>
                                 ELSE << >>,
                            2, timeout))

learn(st, tup, mac, timeout) ==
    IF ~st.datapath THEN { st }
    ELSE { learn_in(st1, tup, mac, timeout) : st1 \in revalidate(st) }

\* The switch hands a packet from mac on tup to the controller: the rule
\* that sends the tuple's traffic there is in place, its first tag is
\* extracted in T0, and no rule of higher priority matches the source.
ToController(fl, tup, mac) ==
    /\ \E e \in fl :
         /\ e.table_id = tuple_match(tup, Absent)[2]
         /\ e.match = tuple_match(tup, Absent)[1]
         /\ OutputsTo(e.actions, OFPP_CONTROLLER)
         /\ ~\E f \in fl : /\ f.table_id = e.table_id
                           /\ f.match = tuple_match(tup, mac)[1]
                           /\ f.priority > e.priority
    /\ Len(tup) >= 2 =>
         \E e \in fl :
            /\ e.table_id = 0
            /\ e.match = OFPMatch(tup[1], Absent, VlanPresent(tup[2]),
                                  Absent, Absent, Absent)
            /\ e.goto = 1

\* The packet-in message for a packet that came in on tup: the table that
\* sent it and the fields of its match.
PacketInMsg(tup) ==
    [ table_id |-> tuple_match(tup, Absent)[2],
      in_port |-> tup[1],
      metadata |-> IF Len(tup) >= 2 THEN tup[2] ELSE 0,
      vlan_vid |-> IF Len(tup) = 3 THEN VlanPresent(tup[3]) ELSE 0 ]

\* The tuple packet_in_handler forms from the message.
packet_in_tuple(msg) ==
    IF msg.table_id = 0 THEN << msg.in_port >>
    ELSE IF (msg.vlan_vid \div OFPVID_PRESENT) % 2 # 0
    THEN << msg.in_port, msg.metadata, msg.vlan_vid % OFPVID_PRESENT >>
    ELSE << msg.in_port, msg.metadata >>

\* The packet-out that sends the packet back through the tables.
packet_out(tup, in_port) ==
    Msg("packet_out", "", 0, 0, MatchAll, 0, 0, in_port,
        (IF Len(tup) = 3
         THEN << Act("push_vlan", ETH_TYPE_8021AD),
                 Act("set_vlan_vid", VlanPresent(tup[3])) >>
         ELSE IF Len(tup) = 2
         THEN << Act("push_vlan", ETH_TYPE_8021Q),
                 Act("set_vlan_vid", VlanPresent(tup[2])) >>
         ELSE << >>) \o << Act("output", OFPP_TABLE) >>,
        Absent, 0, Absent, {})

Barrier == Msg("barrier", "", 0, 0, MatchAll, 0, 0, 0, << >>, Absent, 0, Absent, {})

(***************************************************************************)
(* Handlers.                                                               *)
(***************************************************************************)
\* Slice objects have no names in the program.  Between handlers the model
\* numbers them by the least tuple they hold (then by the least tuple they
\* have established), and lets go of the objects that hold nothing, have
\* nothing established and are not referred to by target_index: no call
\* reads or changes anything through them.
TupleLess(t1, t2) ==
    \/ Len(t1) < Len(t2)
    \/ /\ Len(t1) = Len(t2)
       /\ \E i \in 1..Len(t1) :
            /\ t1[i] < t2[i]
            /\ \A j \in 1..(i - 1) : t1[j] = t2[j]

\* The least tuple of a set, or the empty tuple for the empty set.
Least(T) ==
    IF T = {} THEN EmptyTuple
    ELSE CHOOSE t \in T : \A u \in T \ {t} : TupleLess(t, u)

SliceKey(st, s) == <<Least(st.target[s]), Least(st.established[s]), s>>

\* Slices holding tuples come first, by their least tuple.
KeyLess(k1, k2) ==
    IF k1[1] # k2[1]
    THEN k1[1] # EmptyTuple /\ (k2[1] = EmptyTuple \/ TupleLess(k1[1], k2[1]))
    ELSE IF k1[2] # k2[2]
    THEN k1[2] # EmptyTuple /\ (k2[2] = EmptyTuple \/ TupleLess(k1[2], k2[2]))
    ELSE k1[3] < k2[3]

RECURSIVE InsertKey(_, _)
InsertKey(k, q) ==
    IF q = << >> THEN <<k>>
    ELSE IF KeyLess(k, Head(q)) THEN <<k>> \o q
    ELSE <<Head(q)>> \o InsertKey(k, Tail(q))

\* The keys of the slices of S, least first.
RECURSIVE SortSlices(_, _)
SortSlices(st, S) ==
    IF S = {} THEN << >>
    ELSE LET s == CHOOSE x \in S : TRUE
         IN  InsertKey(SliceKey(st, s), SortSlices(st, S \ {s}))

\* The sets of f in the order of the keys, then empty sets.
RECURSIVE MoveSets(_, _, _)
MoveSets(f, keys, n) ==
    IF n > MaxSlices THEN << >>
    ELSE <<IF n <= Len(keys) THEN f[keys[n][3]] ELSE {}>>
         \o MoveSets(f, keys, n + 1)

KeyIndex(keys, s) == CHOOSE n \in 1..Len(keys) : keys[n][3] = s

RenumberBy(st, keys) ==
    [st EXCEPT
       !.target = MoveSets(st.target, keys, 1),
       !.established = MoveSets(st.established, keys, 1),
       !.sanitized = MoveSets(st.sanitized, keys, 1),
       !.target_index = FoldSet(LAMBDA g, tup :
                                   MapPut(g, tup, KeyIndex(keys, st.target_index[tup])),
                                EmptyMap, DOMAIN st.target_index),
       !.invalid_slices = { n \in 1..Len(keys) :
                              keys[n][3] \in st.invalid_slices }]

Renumber(st) ==
    CHOOSE r \in { RenumberBy(st, keys) :
                     keys \in { SortSlices(st, SliceIds \ FreeSliceIds(st)) } } :
        TRUE

\* The state a handler leaves.
Commit(st0) ==
    \E st \in { Renumber(st0) } :
        /\ datapath' = st.datapath
        /\ known_ports' = st.known_ports
        /\ free_groups' = st.free_groups
        /\ group_to_tuple' = st.group_to_tuple
        /\ tuple_to_group' = st.tuple_to_group
        /\ target_index' = st.target_index
        /\ invalid_slices' = st.invalid_slices
        /\ invalid_first_tag_rules' = st.invalid_first_tag_rules
        /\ target' = st.target
        /\ established' = st.established
        /\ sanitized' = st.sanitized
        /\ flows' = st.flows
        /\ groups' = st.groups

\* The candidate sets a request can carry over the tuples of U: every set
\* of up to MaxTuples of them that holds no conflict, and every pair.
NoConflict(T) ==
    \A t1 \in T : \A t2 \in T \ {t1} : ~tuples_conflict(t1, t2)

CandidateSets(U) ==
    { T \in SUBSET U :
        /\ T # {}
        /\ Cardinality(T) <= MaxTuples
        /\ (NoConflict(T) \/ Cardinality(T) = 2) }

\* Candidate sets with a malformed tuple, alone or beside one other tuple.
BadSets == { {b} : b \in BadTuples } \cup { {b, <<2>>} : b \in BadTuples }

\* datapath_handler, ev.enter
DatapathEnter(ports) ==
    /\ ~datapath
    /\ \E st1 \in { FoldSeq(send_msg, State,
                       << FlowDelete(0, MatchAll, 0, 0, OFPP_ANY),
                          FlowDelete(1, MatchAll, 0, 0, OFPP_ANY),
                          FlowDelete(2, MatchAll, 0, 0, OFPP_ANY),
                          GroupMod("DELETE", OFPG_ALL, {}),
                          FlowAdd(0, 6,
                                  OFPMatch(Absent, Absent, 0, Absent, Absent,
                                           ETH_TYPE_LLDP),
                                  0, << >>, Absent, 0) >>) } :
         \E st4 \in revalidate(invalidate(
                       FoldSet(port_added, set_datapath(st1, TRUE), ports))) :
            Commit(st4)
    /\ known' = TRUE
    /\ UNCHANGED cf

\* datapath_handler, not ev.enter
DatapathLeave ==
    /\ datapath
    /\ Commit(set_datapath(State, FALSE))
    /\ UNCHANGED <<known, cf>>

\* TupleSlicer.port_added
PortAdded(port) ==
    /\ datapath
    /\ port \notin known_ports
    /\ \E st \in revalidate(port_added(State, port)) : Commit(st)
    /\ UNCHANGED <<known, cf>>

\* TupleSlicer.port_removed
PortRemoved(port) ==
    /\ datapath
    /\ port \in known_ports
    /\ \E st \in revalidate(port_removed(State, port)) : Commit(st)
    /\ UNCHANGED <<known, cf>>

\* SliceController.set_config with a body { "disused": [tup] }
SetConfigDisused(tup) ==
    /\ \E st \in revalidate(discard_tuple(State, tup)) : Commit(st)
    /\ known' = TRUE
    /\ UNCHANGED cf

\* SliceController.set_config with a body { "slices": [tups] }.  A call of
\* create_slice that raises ends the handler before its revalidate.
SetConfigSlices(tups) ==
    /\ \E r \in create_slice(State, tups) :
         IF r.res = "ok"
         THEN /\ FreeSliceIds(State) # {}
              /\ FreeSliceIds(r.st) # {}
              /\ \E st \in revalidate(r.st) : Commit(st)
         ELSE IF r.res = "none"
         THEN /\ \E st \in revalidate(r.st) : Commit(st)
         ELSE /\ Commit(r.st)
    /\ known' = TRUE
    /\ UNCHANGED cf

packet_in_handler_barrier_last(st, msg, mac) ==
    LET tup == packet_in_tuple(msg)
    IN  { send_msg(send_msg(st1, packet_out(tup, msg.in_port)), Barrier) :
            st1 \in learn(st, tup, mac, DefaultTimeout) }

\* packet_in_handler: every state the handler can leave for message msg of
\* a packet from mac.
packet_in_handler(st, msg, mac) ==
    LET tup == packet_in_tuple(msg)
    IN  { send_msg(send_msg(st1, Barrier), packet_out(tup, msg.in_port)) :
            st1 \in learn(st, tup, mac, DefaultTimeout) }

\* packet_in_handler, for a packet from mac that came in on tup
PacketIn(tup, mac) ==
    /\ datapath
    /\ ToController(flows, tup, mac)
    /\ \E st \in packet_in_handler(State, PacketInMsg(tup), mac) :
         Commit(st)
    /\ UNCHANGED <<known, cf>>

\* The reasons a switch gives for the removal of a flow.
Reasons == { "IDLE_TIMEOUT", "HARD_TIMEOUT", "DELETE" }

\* The flow-removed message of the switch for entry e.
FlowRemovedMsg(e, reason) ==
    [ reason |-> reason, table_id |-> e.table_id, match |-> e.match ]

\* The tuple flow_removed_handler forms from the message.
flow_removed_tuple(msg) ==
    IF msg.table_id = 0 THEN << msg.match.in_port >>
    ELSE IF msg.match.vlan_vid = Absent
    THEN << msg.match.in_port, msg.match.metadata >>
    ELSE << msg.match.in_port, msg.match.vlan_vid % OFPVID_PRESENT,
            msg.match.metadata >>

\* _not_heard_from: the state it leaves and how it ends.  get_slice gives
\* None for a tuple of no slice and the call of get_tuples on it raises; a
\* cookie of None cannot be put on the wire.
not_heard_from(st, tup, mac) ==
    LET group == get_group_for_tuple(st, tup)
    IN  IF tup \notin DOMAIN st.target_index
        THEN [ st |-> st, res |-> "AttributeError" ]
        ELSE IF group = Absent
        THEN [ st |-> st, res |-> "error" ]
        ELSE [ st |-> send_msg(st,
                        FlowDelete(2,
                                   OFPMatch(Absent, Absent, Absent, Absent,
                                            mac, Absent),
                                   group, AllOnes, OFPP_ANY)),
               res |-> "ok" ]

flow_removed_handler(st, msg) ==
    IF msg.reason # "IDLE_TIMEOUT" THEN [ st |-> st, res |-> "ok" ]
    ELSE not_heard_from(st, flow_removed_tuple(msg), msg.match.eth_src)

\* The rules that time out: _learn gives an idle timeout to the rule that
\* keeps a known source from the controller, and to no other.
Learned(fl) == { e \in fl : e.idle_timeout > 0 }

\* The switch has dropped e from its table.
Dropped(st, e) == [st EXCEPT !.flows = @ \ {e}]

\* Entry e of the switch times out, and flow_removed_handler is told.
FlowRemoved(e) ==
    /\ datapath
    /\ e \in Learned(flows)
    /\ \E r \in { flow_removed_handler(Dropped(State, e),
                                       FlowRemovedMsg(e, "IDLE_TIMEOUT")) } :
         Commit(r.st)
    /\ UNCHANGED <<known, cf, used>>

InitStatus ==
    /\ known = FALSE
    /\ datapath = BlankStatus.datapath
    /\ known_ports = BlankStatus.known_ports
    /\ free_groups = BlankStatus.free_groups
    /\ group_to_tuple = BlankStatus.group_to_tuple
    /\ tuple_to_group = BlankStatus.tuple_to_group
    /\ target_index = BlankStatus.target_index
    /\ invalid_slices = BlankStatus.invalid_slices
    /\ invalid_first_tag_rules = BlankStatus.invalid_first_tag_rules
    /\ target = BlankStatus.target
    /\ established = BlankStatus.established
    /\ sanitized = BlankStatus.sanitized
    /\ flows = BlankStatus.flows
    /\ groups = BlankStatus.groups
    /\ used = [ away |-> 0, events |-> 0, requests |-> 0, packets |-> 0 ]

Init ==
    /\ InitStatus
    /\ cf = [ tup1 |-> <<0>>, tup2 |-> <<0>>, done |-> FALSE, res |-> FALSE ]

\* The operands of tuples_conflict: every tuple of one to three elements.
Operands ==
    { <<a>> : a \in 0..MaxElem }
    \cup { <<a, b>> : a, b \in 0..MaxElem }
    \cup { <<a, b, c>> : a, b, c \in 0..MaxElem }

InitConflict ==
    /\ InitStatus
    /\ cf \in [ tup1 : Operands, tup2 : Operands, done : {FALSE},
                res : {FALSE} ]

\* A call of tuples_conflict on the operands drawn.
Conflict ==
    /\ ~cf.done
    /\ cf' = [cf EXCEPT !.done = TRUE,
                        !.res = tuples_conflict(cf.tup1, cf.tup2)]
    /\ UNCHANGED <<known, datapath, known_ports, free_groups, group_to_tuple,
                   tuple_to_group, target_index, invalid_slices,
                   invalid_first_tag_rules, target, established, sanitized,
                   flows, groups, used>>

\* One more event of a bounded kind.
Spend(kind, max) ==
    /\ used[kind] < max
    /\ used' = [used EXCEPT ![kind] = @ + 1]

\* A request is served; while the datapath is away at most MaxAway are.
Served == IF datapath THEN UNCHANGED used ELSE Spend("away", MaxAway)

\* The datapath is back.
Back == used' = [used EXCEPT !.away = 0]

\* The controller and one switch: requests over Tuples, malformed ones
\* among them, while the datapath comes, loses or gains a port, and goes.
Next ==
    \/ Back /\ \E ports \in SUBSET Ports : DatapathEnter(ports)
    \/ Spend("events", MaxEvents) /\ DatapathLeave
    \/ Spend("events", MaxEvents) /\ \E port \in Ports : PortAdded(port)
    \/ Spend("events", MaxEvents) /\ \E port \in Ports : PortRemoved(port)
    \/ Served /\ \E tup \in Tuples : SetConfigDisused(tup)
    \/ Served /\ \E tups \in CandidateSets(Tuples) \cup BadSets :
                    SetConfigSlices(tups)

Spec == Init /\ [][Next]_vars

\* The controller and a switch that stays: a few requests over LearnTuples,
\* while the switch loses or gains a port and hands packets to the
\* controller.
NextLearn ==
    \/ Back /\ \E ports \in SUBSET Ports : DatapathEnter(ports)
    \/ Spend("events", MaxEvents) /\ \E port \in Ports : PortAdded(port)
    \/ Spend("events", MaxEvents) /\ \E port \in Ports : PortRemoved(port)
    \/ /\ datapath
       /\ Spend("requests", MaxRequests)
       /\ \E tup \in LearnTuples : SetConfigDisused(tup)
    \/ /\ datapath
       /\ Spend("requests", MaxRequests)
       /\ \E tups \in CandidateSets(LearnTuples) : SetConfigSlices(tups)
    \/ /\ Spend("packets", MaxPackets)
       /\ \E tup \in LearnTuples, mac \in Macs : PacketIn(tup, mac)
    \/ \E e \in flows : FlowRemoved(e)

SpecLearn == Init /\ [][NextLearn]_vars

\* The controller and a switch that stays: requests over RelearnTuples,
\* packets handed to the controller and learned rules that time out.
NextRelearn ==
    \/ Back /\ \E ports \in SUBSET Ports : DatapathEnter(ports)
    \/ /\ datapath
       /\ Spend("requests", MaxRequests)
       /\ \E tup \in RelearnTuples : SetConfigDisused(tup)
    \/ /\ datapath
       /\ Spend("requests", MaxRequests)
       /\ \E tups \in CandidateSets(RelearnTuples) : SetConfigSlices(tups)
    \/ /\ Spend("packets", MaxPackets)
       /\ \E tup \in RelearnTuples, mac \in Macs : PacketIn(tup, mac)
    \/ \E e \in flows : FlowRemoved(e)

SpecRelearn == Init /\ [][NextRelearn]_vars

\* tuples_conflict alone, on every pair of operands.
NextConflict == Conflict

SpecConflict == InitConflict /\ [][NextConflict]_vars

(***************************************************************************)
(* Properties.                                                             *)
(***************************************************************************)
\* Every tuple a slice object holds in its target set.
Held(st) == UNION { st.target[s] : s \in SliceIds }

\* The requests that create_slice accepts over Tuples, and the ones it is
\* to reject.
ValidSets == { T \in CandidateSets(Tuples) : NoConflict(T) }
InvalidSets == { {} } \cup BadSets \cup (CandidateSets(Tuples) \ ValidSets)

\* C1: no two distinct tuples held in slice target sets conflict, in one
\* slice or across slices, in every reachable state.
C1_NoHeldConflict ==
    \A t1 \in Held(State) : \A t2 \in Held(State) \ {t1} :
        ~tuples_conflict(t1, t2)

\* A held tuple conflicts with a tuple of a request, and create_slice takes
\* the new tuple in and lets the old one go.
C1_Witness ==
    \E T \in ValidSets : \E r \in create_slice(State, T) :
        /\ r.res = "ok"
        /\ \E t \in T : \E u \in Held(State) \ {t} :
              /\ tuples_conflict(t, u)
              /\ t \in Held(r.st)
              /\ u \notin Held(r.st)

\* Traffic that comes in on tuple s reaches T2 under metadata g.
Ingress(s, g) ==
    \E e \in flows :
        /\ e.table_id = tuple_match(s, Absent)[2]
        /\ Covers(tuple_match(s, Absent)[1], e.match)
        /\ e.goto = 2
        /\ \E i \in 1..Len(e.actions) :
              e.actions[i] = Act("set_metadata", g)

\* In T2, traffic under metadata g that came in on s goes out on tuple t,
\* through a bucket of a group or through a learned unicast rule.
Egress(g, s, t) ==
    \E e \in flows :
        /\ e.table_id = 2
        /\ e.match.metadata = g
        /\ \/ \E h \in GroupsUsed(e.actions) \cap DOMAIN groups :
                 tuple_action(t, s[1]) \in groups[h]
           \/ /\ e.match.eth_dst # Absent
              /\ e.actions = tuple_action(t, s[1])

Forwards(s, t) ==
    \E g \in { e.match.metadata : e \in { f \in flows : f.table_id = 2 } } :
        Ingress(s, g) /\ Egress(g, s, t)

\* C2: with the datapath attached, no group bucket and no learned T2
\* unicast rule on the switch forwards traffic that came in on a tuple of
\* one slice to a tuple of another slice or of no slice.
C2_Isolation ==
    datapath =>
        \A s \in DOMAIN target_index : \A t \in LearnTuples :
            Forwards(s, t) =>
                /\ t \in DOMAIN target_index
                /\ target_index[t] = target_index[s]

\* C3: with the datapath attached, every slice's established set is its
\* target set cut down to the known ports, also after a port is added.
C3_EstablishedIsSanitized ==
    datapath =>
        \A s \in SliceIds :
            established[s] = { t \in target[s] : t[1] \in known_ports }

\* C4: with the datapath attached, a tuple owns a group only when it is in
\* the sanitized set of a slice whose sanitized set has three tuples or
\* more: no tuple of no slice, of an unknown port or of a slice with a
\* sanitized set of two or less owns one.  (The claim adds the converse.)
C4_GroupOnlyWhenNeeded ==
    datapath =>
        \A t \in DOMAIN tuple_to_group :
            \E s \in Range(target_index) :
                /\ t \in Sanitized(State, s)
                /\ Cardinality(Sanitized(State, s)) >= 3

\* Same port, and the same element at every later position both tuples have.
Agree(t1, t2) ==
    /\ t1[1] = t2[1]
    /\ \A i \in 2..3 : (i <= Len(t1) /\ i <= Len(t2)) => t1[i] = t2[i]

\* C5: tuples_conflict(t1, t2) is true exactly when t1 and t2 have the same
\* port and agree at every position both define; it is reflexive and
\* symmetric.
C5_ConflictIsAgreement ==
    cf.done =>
        /\ cf.res <=> Agree(cf.tup1, cf.tup2)
        /\ tuples_conflict(cf.tup1, cf.tup1)
        /\ cf.res <=> tuples_conflict(cf.tup2, cf.tup1)

\* A three-element tuple was found to conflict with its two-element prefix.
C5_Witness ==
    /\ cf.done
    /\ cf.res
    /\ Len(cf.tup1) = 3
    /\ Len(cf.tup2) = 2

\* C6: target_index maps t to S exactly when t is in S.target; get_config
\* lists every held tuple once and lists no empty slice.
C6_IndexIsMembership ==
    /\ \A s \in SliceIds : \A t \in Tuples :
          (t \in DOMAIN target_index /\ target_index[t] = s)
              <=> t \in target[s]
    /\ \A s \in DOMAIN get_config(State) : get_config(State)[s] # {}
    /\ \A t \in Held(State) :
          Cardinality({ s \in DOMAIN get_config(State) :
                          t \in get_config(State)[s] }) = 1

\* A slice holds one tuple, and discarding it leaves a configuration that
\* no longer lists the slice.
C6_Witness ==
    \E t \in DOMAIN target_index :
        /\ target[target_index[t]] = {t}
        /\ Cardinality(DOMAIN get_config(State)) >= 2
        /\ DOMAIN get_config(discard_tuple(State, t))
              = DOMAIN get_config(State) \ { target_index[t] }

\* C7: create_slice of an empty set, or of a set with a malformed tuple or
\* with two tuples that conflict, returns nothing and changes no state.
C7_RejectsInvalid ==
    \A T \in InvalidSets : \A r \in create_slice(State, T) :
        r.res = "none" /\ r.st = State

\* C8 as stated: after create_slice(T) the tuples of get_config are T.
C8_UnionIsRequest ==
    \A T \in ValidSets : \A r \in create_slice(State, T) :
        r.res = "ok" => ConfigUnion(r.st) = T

\* C8: after create_slice(T) the tuples of get_config are those of T and
\* the tuples held before that conflict with no tuple of T.
C8_UnionIsRequestAndRest ==
    \A T \in ValidSets : \A r \in create_slice(State, T) :
        r.res = "ok" =>
            ConfigUnion(r.st)
                = T \cup { t \in ConfigUnion(State) :
                             \A u \in T : ~tuples_conflict(t, u) }

\* create_slice(T) is called while tuples outside T are held, one of them
\* in conflict with T and one not.
C8_Witness ==
    \E T \in ValidSets : \E r \in create_slice(State, T) :
        /\ r.res = "ok"
        /\ \E t \in ConfigUnion(State) \ T : t \in ConfigUnion(r.st)
        /\ \E t \in ConfigUnion(State) \ T : t \notin ConfigUnion(r.st)

\* The slice that holds exactly T, and another that holds exactly rest with
\* every tuple of rest indexed under it.
SplitInto(st, T, rest) ==
    \E s1 \in SliceIds : \E s2 \in SliceIds \ {s1} :
        /\ st.target[s1] = T
        /\ st.target[s2] = rest
        /\ \A t \in rest :
              t \in DOMAIN st.target_index /\ st.target_index[t] = s2

\* C9: create_slice of a valid proper subset T of a slice's target leaves
\* one slice with exactly T and another with exactly the rest, every tuple
\* of the rest indexed under that other slice.
C9_SubsetSplits ==
    \A s \in SliceIds : \A T \in ValidSets :
        (T \subseteq target[s] /\ T # target[s]) =>
            \A r \in create_slice(State, T) :
                r.res = "ok" /\ SplitInto(r.st, T, target[s] \ T)

\* A slice of three tuples is split by a request for one of them.
C9_Witness ==
    \E s \in SliceIds : \E T \in ValidSets :
        /\ Cardinality(target[s]) = 3
        /\ Cardinality(T) = 1
        /\ T \subseteq target[s]
        /\ \E r \in create_slice(State, T) :
              r.res = "ok" /\ SplitInto(r.st, T, target[s] \ T)

\* C10: tuple_to_group and group_to_tuple are inverse bijections.
C10_GroupMapsInverse ==
    /\ \A t \in DOMAIN tuple_to_group :
          /\ tuple_to_group[t] \in DOMAIN group_to_tuple
          /\ group_to_tuple[tuple_to_group[t]] = t
    /\ \A g \in DOMAIN group_to_tuple :
          /\ group_to_tuple[g] \in DOMAIN tuple_to_group
          /\ tuple_to_group[group_to_tuple[g]] = g

\* Three groups are allocated, after a group was released and claimed again.
C10_Witness ==
    /\ datapath
    /\ Cardinality(DOMAIN tuple_to_group) = 3
    /\ Cardinality(free_groups) > 1

\* The groups the allocator has given out.
Allocated(st) == DOMAIN st.group_to_tuple

\* The groups successive claims for the tuples of q return, first claim
\* first.
RECURSIVE ClaimAll(_, _)
ClaimAll(st, q) ==
    IF q = << >> THEN << >>
    ELSE LET claim == claim_group_for_tuple(st, Head(q))
         IN  <<claim[2]>> \o ClaimAll(claim[1], Tail(q))

\* C11: claim_group_for_tuple(t) returns the group t has, as not added, and
\* changes nothing when t has one; otherwise it returns the least free
\* group as added, takes it out of free_groups and puts its successor in
\* when nothing else is free.  From a new allocator n claims of distinct
\* tuples return 0 .. n-1, and after a release the next claim returns the
\* released group unless a lesser one is free.
C11_ClaimLowestFree ==
    /\ \A t \in LearnTuples \cup Tuples :
          LET claim == claim_group_for_tuple(State, t)
              rest == free_groups \ {Min(free_groups)}
          IN  IF t \in DOMAIN tuple_to_group
              THEN claim = <<State, tuple_to_group[t], FALSE>>
              ELSE /\ claim[2] = Min(free_groups)
                   /\ claim[3]
                   /\ claim[1].free_groups
                        = IF rest = {} THEN {claim[2] + 1} ELSE rest
                   /\ claim[1].tuple_to_group
                        = MapPut(tuple_to_group, t, claim[2])
                   /\ claim[1].group_to_tuple
                        = MapPut(group_to_tuple, claim[2], t)
    /\ \A q \in Orders(LearnTuples) :
          ClaimAll(BlankStatus, q) = [ i \in 1..Len(q) |-> i - 1 ]
    /\ \A t \in DOMAIN tuple_to_group :
          \A u \in (LearnTuples \cup Tuples) \ DOMAIN tuple_to_group :
             claim_group_for_tuple(release_tuple(State, t)[1], u)[2]
                = Min(free_groups \cup { tuple_to_group[t] })

\* A tuple has no group while two groups are free, the lesser of them
\* below a group that is taken.
C11_Witness ==
    /\ (LearnTuples \cup Tuples) \ DOMAIN tuple_to_group # {}
    /\ Cardinality(free_groups) >= 2
    /\ \E g \in Allocated(State) : Min(free_groups) < g

\* C12 as stated: min(free_groups) is defined, and right after the release
\* of a group it is the released group.
C12_ReleasedIsLeast ==
    /\ free_groups # {}
    /\ \A t \in DOMAIN tuple_to_group :
          LET rel == release_tuple(State, t)
          IN  Min(rel[1].free_groups) = rel[2]

\* C12: min(free_groups) is defined; right after the release of a group g,
\* g is free and min(free_groups) is the lesser of g and the least group
\* that was free before, so it is g exactly when no lesser group was free.
C12_ReleasedIsFree ==
    /\ free_groups # {}
    /\ \A t \in DOMAIN tuple_to_group :
          LET rel == release_tuple(State, t)
          IN  /\ rel[2] = tuple_to_group[t]
              /\ rel[2] \in rel[1].free_groups
              /\ Min(rel[1].free_groups)
                   = IF Min(free_groups) < rel[2] THEN Min(free_groups)
                     ELSE rel[2]

\* A group is taken while a lesser group is free.
C12_Witness ==
    \E t \in DOMAIN tuple_to_group : Min(free_groups) < tuple_to_group[t]

\* C13: free_groups is never empty, holds no group that is given out, and
\* holds a group greater than every group given out.
C13_FreeAboveAllocated ==
    /\ free_groups # {}
    /\ free_groups \cap Allocated(State) = {}
    /\ free_groups \cap Range(tuple_to_group) = {}
    /\ \E f \in free_groups : \A g \in Allocated(State) : f > g

\* Groups were claimed and released: the free groups are more than the
\* successor of the greatest group given out.
C13_Witness ==
    /\ Allocated(State) # {}
    /\ Cardinality(free_groups) >= 3

\* Table 0 holds the first-tag rule of port p and tag v.
FirstTagRule(p, v) ==
    \E e \in flows :
        /\ e.table_id = 0
        /\ e.match = OFPMatch(p, Absent, VlanPresent(v), Absent, Absent,
                              Absent)
        /\ e.actions = << Act("pop_vlan", 0), Act("set_metadata", v) >>
        /\ e.goto = 1

\* The first tags the requests use.
Tags == { t[2] : t \in { u \in Tuples \cup LearnTuples : Len(u) >= 2 } }

\* C14: with the datapath attached, table 0 holds the first-tag rule of
\* (p, v) exactly when a slice holds a tuple of two elements or more that
\* starts with (p, v), a slice of one tuple included.
C14_FirstTagCoverage ==
    datapath =>
        \A p \in Ports : \A v \in Tags :
            FirstTagRule(p, v)
                <=> \E t \in Held(State) : Len(t) >= 2 /\ Prefix2(t) = <<p, v>>

\* Table 2 holds the flood rule of group g, under the all-ones cookie.
FloodRule(g) ==
    \E e \in flows :
        /\ e.table_id = 2
        /\ e.match = OFPMatch(Absent, g, Absent, Absent, Absent, Absent)
        /\ e.cookie = AllOnes
        /\ e.actions = << Act("group", g) >>

\* C15: with the datapath attached, also after it left and came back, every
\* tuple of a slice established with three tuples or more has a group that
\* is in the switch's group table, with its flood rule in table 2.
C15_ReattachReinstalls ==
    datapath =>
        \A s \in SliceIds :
            Cardinality(established[s]) >= 3 =>
                \A t \in established[s] :
                    /\ t \in DOMAIN tuple_to_group
                    /\ tuple_to_group[t] \in DOMAIN groups
                    /\ FloodRule(tuple_to_group[t])

\* A request served while the datapath is away: the status is there
\* afterwards and the switch is not touched.
AwayStep ==
    (~datapath /\ ~datapath') =>
        /\ known'
        /\ flows' = flows
        /\ groups' = groups

\* The datapath comes in: no slice is left invalid and every slice has
\* established its tuples on known ports.
EnterStep ==
    (~datapath /\ datapath') =>
        /\ invalid_slices' = {}
        /\ \A s \in SliceIds :
              established'[s] = { t \in target'[s] : t[1] \in known_ports' }

\* While the datapath is away a valid request is taken, get_config reports
\* its tuples, and the revalidate that follows sends nothing and changes
\* nothing.
AwayRequest ==
    ~datapath =>
        \A T \in ValidSets : \A r \in create_slice(State, T) :
            /\ r.res = "ok"
            /\ T \subseteq ConfigUnion(r.st)
            /\ revalidate(r.st) = { r.st }

C17_RevalidateIdempotent ==
    /\ revalidate(State) = { State }
    /\ datapath =>
          /\ invalid_slices = {}
          /\ invalid_first_tag_rules = {}

\* A revalidate with the datapath attached has installed the groups and
\* the flood rules of a slice of three tuples.
C17_Witness ==
    /\ datapath
    /\ Cardinality(DOMAIN groups) = 3
    /\ \E s \in SliceIds : Cardinality(established[s]) = 3
    /\ \A g \in DOMAIN groups : FloodRule(g)

\* C18: a packet-in for a tuple that no slice holds, or that has no group,
\* installs and deletes no flow and changes no slice and nothing of the
\* allocator; the barrier and the packet-out are sent all the same.
C18_NoGroupNoLearning ==
    datapath =>
        \A tup \in LearnTuples : \A mac \in Macs :
            (tup \notin DOMAIN target_index \/ tup \notin DOMAIN tuple_to_group)
                => \A st \in packet_in_handler(State, PacketInMsg(tup), mac) :
                      /\ st.out = << Barrier, packet_out(tup, tup[1]) >>
                      /\ [st EXCEPT !.out = << >>] = State

\* The switch sends the controller a packet of a tuple that has no group:
\* the rule that does so outlived the group of the tuple.
C18_Witness ==
    /\ datapath
    /\ \E tup \in LearnTuples : \E mac \in Macs :
          /\ ToController(flows, tup, mac)
          /\ tup \notin DOMAIN tuple_to_group

\* The tag that table 0 pops from a packet of tup: the one the first-tag
\* rule of tup matches.  No tag is popped from a packet of a one-element
\* tuple.
PoppedVid(tup) == ensure_first_tag_rule(State, tup).out[1].match.vlan_vid

\* The actions that put the popped tag back on a packet of tup.
PushBack(tup) ==
    IF Len(tup) = 1 THEN << >>
    ELSE << Act("push_vlan",
                IF Len(tup) = 2 THEN ETH_TYPE_8021Q ELSE ETH_TYPE_8021AD),
            Act("set_vlan_vid", PoppedVid(tup)) >>

\* C19: the packet-out for a packet the switch sent up from tuple t pushes
\* back exactly the tag table 0 popped: nothing for a one-element tuple, a
\* 0x8100 tag with VLAN t[1] for two elements, a 0x88A8 tag with the outer
\* VLAN t[1] for three, and then sends the packet through the tables.
C19_PacketOutRestoresTag ==
    datapath =>
        \A tup \in LearnTuples : \A mac \in Macs :
            ToController(flows, tup, mac)
                => \A st \in packet_in_handler(State, PacketInMsg(tup), mac) :
                      st.out[Len(st.out)].actions
                          = PushBack(tup) \o << Act("output", OFPP_TABLE) >>

\* The rules on the switch that learning installed for mac on tup to keep
\* the source from the controller.
SuppressionRules(tup, mac) ==
    { e \in Learned(flows) : /\ e.table_id = tuple_match(tup, mac)[2]
                             /\ e.match = tuple_match(tup, mac)[1] }

\* C20: when the rule learned for mac on tuple t, of one to three elements,
\* times out, the handler forms t again from the message and sends one
\* DELETE for table 2 on eth_dst = mac with the group of t as cookie, after
\* which table 2 holds no rule for mac with that cookie; a removal for any
\* other reason sends nothing.
C20_TimeoutRetracts ==
    datapath =>
        \A tup \in LearnTuples : \A mac \in Macs :
            \A e \in SuppressionRules(tup, mac) :
                LET msg == FlowRemovedMsg(e, "IDLE_TIMEOUT")
                    r == flow_removed_handler(Dropped(State, e), msg)
                    group == get_group_for_tuple(State, tup)
                IN  /\ flow_removed_tuple(msg) = tup
                    /\ r.res = "ok"
                    /\ r.st.out
                         = << FlowDelete(2,
                                         OFPMatch(Absent, Absent, Absent,
                                                  Absent, mac, Absent),
                                         group, AllOnes, OFPP_ANY) >>
                    /\ ~\E f \in r.st.flows : /\ f.table_id = 2
                                              /\ f.match.eth_dst = mac
                                              /\ f.cookie = group
                    /\ \A reason \in Reasons \ { "IDLE_TIMEOUT" } :
                          flow_removed_handler(Dropped(State, e),
                                               FlowRemovedMsg(e, reason)).st.out
                              = << >>

\* C21: a timeout message whose tuple no slice holds, or whose tuple has no
\* group, is ignored: the handler sends nothing, changes nothing and does not
\* fail.
C21_UnknownTimeoutIgnored ==
    datapath =>
        \A e \in Learned(flows) :
            LET msg == FlowRemovedMsg(e, "IDLE_TIMEOUT")
                tup == flow_removed_tuple(msg)
                r == flow_removed_handler(Dropped(State, e), msg)
            IN  (tup \notin DOMAIN target_index \/ tup \notin DOMAIN tuple_to_group)
                    => r.res = "ok" /\ r.st = Dropped(State, e)

\* The messages a call has sent.
Sent(st) == { st.out[i] : i \in 1..Len(st.out) }

\* The E-Line rule that takes the traffic of tup to other.
ELineAdd(tup, other) ==
    FlowAdd(tuple_match(tup, Absent)[2], tuple_match(tup, Absent)[3],
            tuple_match(tup, Absent)[1], 0, tuple_action(other, tup[1]),
            Absent, 0)

\* The flow ADDs among the messages of a call other than first-tag rules.
RuleAdds(st) ==
    { m \in Sent(st) : /\ m.type = "flow"
                       /\ m.command = "ADD"
                       /\ ~(m.table_id = 0 /\ m.goto = 1) }

\* The DELETE of the table-2 rules under metadata g.
MetadataDelete(g) ==
    FlowDelete(2, OFPMatch(Absent, g, Absent, Absent, Absent, Absent),
               AllOnes, 0, OFPP_ANY)

\* C22: a slice is established with three tuples on known ports; the port
\* of exactly one of them is removed.  The revalidate of the handler leaves
\* the other two established, releases the groups of all three with a GROUP
\* DELETE and a table-2 metadata DELETE each, and adds the two E-Line rules
\* between the two that remain.
C22_PortLossShrinks ==
    datapath =>
        \A s \in SliceIds : \A p \in known_ports :
            LET T == established[s]
                gone == { t \in T : t[1] = p }
            IN  ( /\ Cardinality(T) = 3
                  /\ T = target[s]
                  /\ \A t \in T : t[1] \in known_ports
                  /\ Cardinality(gone) = 1 )
                => \A st \in revalidate(port_removed(State, p)) :
                      /\ st.established[s] = T \ gone
                      /\ \A t \in T :
                            /\ t \in DOMAIN tuple_to_group
                            /\ t \notin DOMAIN st.tuple_to_group
                            /\ tuple_to_group[t] \in st.free_groups
                            /\ GroupMod("DELETE", tuple_to_group[t], {})
                                  \in Sent(st)
                            /\ MetadataDelete(tuple_to_group[t]) \in Sent(st)
                      /\ RuleAdds(st)
                           = { ELineAdd(a, b) : <<a, b>> \in
                                 { q \in (T \ gone) \X (T \ gone) : q[1] # q[2] } }

\* A slice is established with three tuples, one of them alone on its port.
C22_Witness ==
    /\ datapath
    /\ \E s \in SliceIds : \E p \in known_ports :
          /\ Cardinality(established[s]) = 3
          /\ established[s] = target[s]
          /\ \A t \in target[s] : t[1] \in known_ports
          /\ Cardinality({ t \in established[s] : t[1] = p }) = 1
          /\ \E st \in revalidate(port_removed(State, p)) :
                Cardinality(st.established[s]) = 2

\* The DELETE of the first-tag rule for port p and tag v.
FirstTagDelete(p, v) ==
    FlowDelete(0, OFPMatch(p, Absent, VlanPresent(v), Absent, Absent, Absent),
               0, 0, OFPP_ANY)

\* C23: a port is removed on which a slice holds a tuple that starts with
\* (p, v), and no other held tuple starts so.  The revalidate of the handler
\* sends the table-0 DELETE of the first-tag rule for (p, v).
C23_PortLossDropsFirstTag ==
    datapath =>
        \A p \in known_ports : \A t \in Held(State) :
            ( /\ t[1] = p
              /\ Len(t) >= 2
              /\ \A u \in Held(State) \ {t} : Prefix2(u) # Prefix2(t)
              /\ FirstTagRule(p, t[2]) )
            => \A st \in revalidate(port_removed(State, p)) :
                  FirstTagDelete(p, t[2]) \in Sent(st)

\* The two-tuple requests over Tuples that create_slice accepts.
Pairs == { T \in ValidSets : Cardinality(T) = 2 }

\* The first-tag rules add_static_rules asks for, for the tuples of T.
FirstTagAdds(T) ==
    { ensure_first_tag_rule(State, t).out[1] : t \in { u \in T : Len(u) >= 2 } }

\* The E-Line rules between the two tuples of T.
ELineAdds(T) ==
    { ELineAdd(q[1], q[2]) : q \in { r \in T \X T : r[1] # r[2] } }

\* The messages of a call that add or change a flow or a group.
Adds(st) == { m \in Sent(st) : m.command \in { "ADD", "MODIFY" } }

\* C24: a request makes a new slice of two tuples on known ports.  The
\* revalidate of the handler adds for it the two E-Line rules, each on the
\* match of one tuple with the action towards the other, and a first-tag
\* rule for each tuple of two or more elements, and nothing else; no group
\* is allocated.
C24_PairIsELine ==
    datapath =>
        \A T \in Pairs :
            (\A t \in T : t[1] \in known_ports)
            => \A r \in create_slice(State, T) :
                 (r.res = "ok" /\ r.slize \notin Range(target_index)) =>
                   \A st \in revalidate(r.st) :
                      LET s == r.slize
                      IN  /\ st.established[s] = T
                          /\ ELineAdds(T) \cup FirstTagAdds(T) \subseteq Sent(st)
                          /\ { m \in RuleAdds(st) :
                                 \E t \in T :
                                    /\ m.table_id = tuple_match(t, Absent)[2]
                                    /\ m.match = tuple_match(t, Absent)[1] }
                               = ELineAdds(T)
                          /\ \A t \in T : \A u \in T \ {t} :
                                \E m \in Sent(st) :
                                   /\ m.command = "ADD"
                                   /\ m.match = tuple_match(t, Absent)[1]
                                   /\ m.actions[Len(m.actions)]
                                        = Act("output",
                                              IF u[1] = t[1] THEN OFPP_IN_PORT
                                              ELSE u[1])
                          /\ r.st.invalid_slices = {s}
                               => Adds(st) = ELineAdds(T) \cup FirstTagAdds(T)
                          /\ DOMAIN st.group_to_tuple \subseteq DOMAIN group_to_tuple
                          /\ T \cap DOMAIN st.tuple_to_group
                               \subseteq DOMAIN tuple_to_group

\* A request for two tuples on one known port, one of them with a tag, makes
\* a new slice while the slices there are stay as they are.
C24_Witness ==
    /\ datapath
    /\ \E T \in Pairs : \E r \in create_slice(State, T) :
          /\ r.res = "ok"
          /\ r.slize \notin Range(target_index)
          /\ Range(target_index) # {}
          /\ \A t \in T : t[1] \in known_ports
          /\ \E t \in T : Len(t) >= 2
          /\ \A t \in T : \A u \in T : t[1] = u[1]
          /\ r.st.invalid_slices = { r.slize }
          /\ \E st \in revalidate(r.st) : Cardinality(Adds(st)) >= 3

\* The states in which the handlers of port events and requests call
\* revalidate.
Pending ==
    { port_added(State, p) : p \in Ports }
        \cup { port_removed(State, p) : p \in known_ports }
        \cup { discard_tuple(State, t) : t \in Tuples }
        \cup { r.st : r \in { x \in UNION { create_slice(State, T) :
                                              T \in ValidSets } :
                                x.res = "ok" } }

\* Message m installs something for tuple t: a rule on its match, its
\* first-tag rule, or its group.
InstallsFor(st, m, t) ==
    \/ /\ m.type = "flow"
       /\ m.table_id = tuple_match(t, Absent)[2]
       /\ m.match = tuple_match(t, Absent)[1]
    \/ /\ Len(t) >= 2
       /\ m = ensure_first_tag_rule(State, t).out[1]
       /\ ~\E s \in Range(st.target_index) :
             /\ Cardinality(st.sanitized[s]) >= 2
             /\ \E u \in st.sanitized[s] : Prefix2(u) = Prefix2(t)
    \/ /\ m.type = "group"
       /\ t \in DOMAIN st.tuple_to_group
       /\ m.group_id = st.tuple_to_group[t]

C26_OtherLevelCancelled ==
    \A T \in ValidSets : \A r \in create_slice(State, T) :
        r.res = "ok" =>
            \A t \in T \ Held(State) : \A u \in Held(State) :
                (u[1] = t[1] /\ Len(u) # Len(t)) => u \notin Held(r.st)

C28_AwayRevalidateIdle ==
    ~datapath =>
        \A pre \in Pending \cup { State } : \A st \in revalidate(pre) :
            /\ st.out = << >>
            /\ st.invalid_slices = pre.invalid_slices
            /\ st.invalid_first_tag_rules = pre.invalid_first_tag_rules
            /\ st.established = pre.established
            /\ st.tuple_to_group = pre.tuple_to_group
            /\ st.group_to_tuple = pre.group_to_tuple
            /\ st.free_groups = pre.free_groups
            /\ st = pre

\* The datapath is away, slices wait to be revalidated, and a request adds
\* one more to them.
C28_Witness ==
    /\ ~datapath
    /\ invalid_slices # {}
    /\ \E pre \in Pending :
          /\ invalid_slices \subseteq pre.invalid_slices
          /\ pre.invalid_slices # invalid_slices
          /\ revalidate(pre) = { pre }

\* The states in which datapath_handler calls revalidate when the datapath
\* enters with the ports of P.
Entering ==
    IF datapath THEN {}
    ELSE { invalidate(FoldSet(port_added, set_datapath(State, TRUE), P)) :
             P \in SUBSET Ports }

\* A DELETE of the orphan cleanup or of the static delete pass: any DELETE
\* but that of a first-tag rule, which revalidate_first_tag_rules sends.
PassDelete(m) ==
    /\ m.command = "DELETE"
    /\ ~(m.type = "flow" /\ m.table_id = 0 /\ m.match.vlan_vid # Absent)

\* C29: in one call of revalidate, every flow DELETE and GROUP DELETE of the
\* orphan cleanup and of the static delete pass, of whichever slice, is sent
\* before every flow ADD, GROUP ADD and GROUP MODIFY of the static add pass;
\* the old rules and the group of a tuple that went from one slice to
\* another are deleted before its new rules are added.
C29_DeletesBeforeAdds ==
    \A pre \in Pending \cup Entering : \A st \in revalidate(pre) :
        \A i \in 1..Len(st.out) : \A j \in 1..Len(st.out) :
            (PassDelete(st.out[i]) /\ st.out[j].command \in { "ADD", "MODIFY" })
                => i < j

\* A request takes a tuple with a group from one slice to another, and the
\* revalidate of the handler deletes rules of the tuple and adds rules for
\* it.
C29_Witness ==
    /\ datapath
    /\ \E pre \in Pending : \E st \in revalidate(pre) :
          \E s1 \in pre.invalid_slices : \E t \in pre.established[s1] :
              /\ t \notin pre.target[s1]
              /\ t \in DOMAIN pre.target_index
              /\ t \in DOMAIN pre.tuple_to_group
              /\ GroupMod("DELETE", pre.tuple_to_group[t], {}) \in Sent(st)
              /\ \E m \in Adds(st) : m.match = tuple_match(t, Absent)[1]

\* Message m adds the rule that sends the packets of tuple t with an
\* unknown source to the controller.
ClassifierAdd(m, t) ==
    /\ m.type = "flow"
    /\ m.command = "ADD"
    /\ m.table_id = tuple_match(t, Absent)[2]
    /\ m.match = tuple_match(t, Absent)[1]
    /\ OutputsTo(m.actions, OFPP_CONTROLLER)

\* C30: the rule that the static add pass of a slice of three or more
\* tuples installs to send the packets of a new tuple to the controller has
\* the group of that tuple as its cookie.
C30_ClassifierCookieIsOwnGroup ==
    datapath =>
        \A pre \in Pending : \A st \in revalidate(pre) :
            \A t \in Held(st) : \A m \in Sent(st) :
                ClassifierAdd(m, t)
                    => /\ t \in DOMAIN st.tuple_to_group
                       /\ m.cookie = st.tuple_to_group[t]

\* The buckets the group of tuple t is to have in a slice of tuples T: for
\* each other tuple d the tags of d and an output to its port, or to IN_PORT
\* when that is the port of t.
Buckets(T, t) == { tuple_action(d, t[1]) : d \in T \ {t} }

\* C31: after the static add pass of a slice whose sanitized set has three
\* or more tuples, the group of each of them has been defined anew, by a
\* GROUP ADD or GROUP MODIFY, with one bucket for each other tuple d of the
\* set and none for the tuple itself; the bucket is tuple_action(d, port of
\* s) and puts out to IN_PORT exactly when d is on the port of s.
C31_BucketPerOtherTuple ==
    \A pre \in Pending \cup Entering : \A st \in revalidate(pre) :
        \A s \in pre.invalid_slices :
            ( /\ Cardinality(st.sanitized[s]) >= 3
              /\ st.sanitized[s] # pre.established[s] )
            => \A t \in st.sanitized[s] :
                  /\ t \in DOMAIN st.tuple_to_group
                  /\ \E m \in Adds(st) :
                        m.type = "group" /\ m.group_id = st.tuple_to_group[t]
                  /\ \A m \in Adds(st) :
                        (m.type = "group" /\ m.group_id = st.tuple_to_group[t])
                        => /\ m.buckets = Buckets(st.sanitized[s], t)
                           /\ Cardinality(m.buckets)
                                = Cardinality(st.sanitized[s]) - 1
                           /\ \A d \in st.sanitized[s] \ {t} :
                                 \E b \in m.buckets :
                                    /\ b = tuple_action(d, t[1])
                                    /\ b[Len(b)]
                                         = Act("output",
                                               IF d[1] = t[1] THEN OFPP_IN_PORT
                                               ELSE d[1])
                                    /\ \A i \in 1..Len(b) :
                                          b[i].op = "set_vlan_vid"
                                              => b[i].arg \in
                                                   { VlanPresent(d[k]) :
                                                       k \in 2..Len(d) }

\* A slice of three tuples, two of them on one port, gets its groups.
C31_Witness ==
    \E pre \in Pending : \E st \in revalidate(pre) :
        \E s \in pre.invalid_slices :
            /\ Cardinality(st.sanitized[s]) = 3
            /\ \E t \in st.sanitized[s] : \E d \in st.sanitized[s] \ {t} :
                  d[1] = t[1]
            /\ \E t \in st.sanitized[s] : \E d \in st.sanitized[s] :
                  d[1] # t[1]
            /\ Cardinality({ m \in Adds(st) : m.type = "group" }) = 3

\* The table-2 rule that takes packets for mac, come in on a tuple of group
\* gd, to tuple t of group g: the actions towards t, or none when gd is g.
UnicastAdd(t, g, d, gd, mac) ==
    FlowAdd(2, 2, OFPMatch(Absent, gd, Absent, Absent, mac, Absent), g,
            IF gd = g THEN << >> ELSE tuple_action(t, d[1]), Absent, 0)

\* C32: learning mac on tuple t, of group g and slice S, adds for each tuple
\* d of S that has a group gd one table-2 rule of priority 2 on metadata gd
\* and eth_dst mac with cookie g, with the actions towards t seen from the
\* port of d, or no action when gd is g; it adds no table-2 rule for a tuple
\* of S without group.
C32_UnicastPerGroupedPeer ==
    datapath =>
        \A t \in LearnTuples : \A mac \in Macs :
            (t \in DOMAIN target_index /\ t \in DOMAIN tuple_to_group)
            => \A st \in learn(State, t, mac, DefaultTimeout) :
                  { m \in Adds(st) : m.type = "flow" /\ m.table_id = 2 }
                      = { UnicastAdd(t, tuple_to_group[t], d,
                                     tuple_to_group[d], mac) :
                            d \in target[target_index[t]]
                                    \cap DOMAIN tuple_to_group }

\* A flow-mod of learning: a unicast rule of table 2, the DELETE of a rule
\* on the source in table 0 or 1, or the rule that keeps the source from the
\* controller.
LearningMod(m, mac) ==
    /\ m.type = "flow"
    /\ \/ m.command = "ADD" /\ m.table_id = 2 /\ m.match.eth_dst = mac
       \/ m.command = "DELETE" /\ m.table_id \in {0, 1} /\ m.match.eth_src = mac
       \/ m.command = "ADD" /\ m.table_id \in {0, 1} /\ m.match.eth_src = mac

ConfigSets(st) == { st.target[s] : s \in Range(st.target_index) }

\* The tuples that a request for T takes from the slices that hold them:
\* those of T and those in conflict with one of T.
Taken(T) == { u \in Tuples : \E t \in T : tuples_conflict(t, u) }

\* C34: whichever slice create_slice chooses as host among those that share
\* most with T, a successful call leaves one slice that holds T and nothing
\* else, and of every slice S there was the tuples of S that are neither in
\* T nor in conflict with one of T, as one slice, or as none when no tuple
\* is left.
C34_HostDoesNotMatter ==
    \A T \in ValidSets : \A r \in create_slice(State, T) :
        r.res = "ok" =>
            /\ ConfigSets(r.st)
                 = {T} \cup ({ S \ Taken(T) : S \in ConfigSets(State) } \ { {} })
            /\ Cardinality({ s \in Range(r.st.target_index) :
                               r.st.target[s] = T }) = 1
            /\ Cardinality(Range(r.st.target_index))
                 = Cardinality(ConfigSets(r.st))
            /\ r.st.target[r.slize] = T

\* Two slices share as much with the request, and create_slice can choose
\* either as host.
C34_Witness ==
    \E T \in ValidSets : \E r1 \in create_slice(State, T) :
        \E r2 \in create_slice(State, T) :
            /\ r1.res = "ok"
            /\ r2.res = "ok"
            /\ r1.slize # r2.slize
            /\ r1.slize \in Range(target_index)
            /\ r2.slize \in Range(target_index)
            /\ target[r1.slize] \ T # {}

\* Entry e keeps a learned source on tuple t from the controller: a rule
\* of priority 5 on the match of t and a source address that goes on to
\* table 2.
Suppresses(e, t) ==
    /\ e.table_id = tuple_match(t, Absent)[2]
    /\ e.priority = tuple_match(t, Absent)[3] + 1
    /\ Covers(tuple_match(t, Absent)[1], e.match)
    /\ e.match.eth_src # Absent
    /\ e.goto = 2

\* C35: when revalidate makes a slice that had three or more tuples
\* established a slice of two, no rule learned for a source on one of the
\* two is left in table 0 or 1, so that the E-Line rule of priority 4 is
\* the first to match all that comes in on either tuple.
C35_ELineUnshadowed ==
    datapath =>
        \A pre \in Pending : \A st \in revalidate(pre) :
            \A s \in pre.invalid_slices :
                ( /\ Cardinality(pre.established[s]) >= 3
                  /\ Cardinality(st.established[s]) = 2 )
                => \A t \in st.established[s] : \A e \in st.flows :
                      ~Suppresses(e, t)

\* The table-2 rules of fl that take packets for mac to the tuple of group
\* g.
Location(fl, mac, g) ==
    { f \in fl : f.table_id = 2 /\ f.match.eth_dst = mac /\ f.cookie = g }

\* C36: mac was learned on tuple a and the rule learned there times out;
\* before the handler is told, mac is learned on another tuple b of the
\* slice.  The handling of the late message leaves the table-2 rules for
\* mac, which now bear the group of b, in place.
C36_StaleTimeoutKeepsLocation ==
    datapath =>
        \A a \in RelearnTuples : \A b \in RelearnTuples \ {a} :
            \A mac \in Macs : \A e \in SuppressionRules(a, mac) :
                ( /\ a \in DOMAIN target_index
                  /\ b \in DOMAIN target_index
                  /\ target_index[a] = target_index[b]
                  /\ b \in DOMAIN tuple_to_group )
                => \A st \in learn(Dropped(State, e), b, mac, DefaultTimeout) :
                      LET r == flow_removed_handler(
                                   [st EXCEPT !.out = << >>],
                                   FlowRemovedMsg(e, "IDLE_TIMEOUT"))
                      IN  /\ Location(st.flows, mac, tuple_to_group[b]) # {}
                          /\ Location(st.flows, mac, tuple_to_group[b])
                               \subseteq r.st.flows

\* Message m is a table-0 DELETE on port p and first tag v.
DeletesFirstTag(m, p, v) ==
    /\ m.type = "flow"
    /\ m.command = "DELETE"
    /\ m.table_id = 0
    /\ m.match.in_port = p
    /\ m.match.vlan_vid = VlanPresent(v)

\* The states in which revalidate is called with a datapath.
Revalidating == (IF datapath THEN Pending ELSE {}) \cup Entering

\* C37: a revalidate that runs to its end sends no table-0 DELETE for a pair
\* (p, v) with which a held tuple of two or three elements starts, none for
\* a pair whose first-tag rule the same call has added, and leaves
\* invalid_first_tag_rules empty.
C37_HeldFirstTagKept ==
    \A pre \in Revalidating : \A st \in revalidate(pre) :
        /\ st.invalid_first_tag_rules = {}
        /\ \A p \in Ports : \A v \in Tags :
              (\E m \in Sent(st) : DeletesFirstTag(m, p, v))
              => /\ ~\E t \in DOMAIN st.target_index :
                       Len(t) >= 2 /\ t[1] = p /\ t[2] = v
                 /\ ensure_first_tag_rule(State, <<p, v>>).out[1]
                       \notin Sent(st)

\* One call deletes the rules of a held tuple and adds its first-tag rule
\* again, and another call deletes the first-tag rule of a pair that is no
\* longer held.
C37_Witness ==
    /\ datapath
    /\ \E pre \in Pending : \E st \in revalidate(pre) :
          \E t \in DOMAIN st.target_index :
             /\ Len(t) >= 2
             /\ \E m \in Sent(st) :
                   /\ m.type = "flow"
                   /\ m.command = "DELETE"
                   /\ m.table_id = tuple_match(t, Absent)[2]
                   /\ m.match = tuple_match(t, Absent)[1]
             /\ ensure_first_tag_rule(State, t).out[1] \in Sent(st)
    /\ \E pre \in Pending : \E st \in revalidate(pre) :
          \E p \in Ports : \E v \in Tags :
             \E m \in Sent(st) : DeletesFirstTag(m, p, v)

====
